---- MODULE Spec2Model ----
(***************************************************************************)
(* State-machine model of the FoodScanner component (image staging, the    *)
(* two two-stage pipelines, tab switching) and of the CameraView component *)
(* (camera stream acquisition and release), and of the request handler of  *)
(* the RecommendationsPage component.                                      *)
(*                                                                         *)
(* One action is one event-loop task: a user event handler, or the         *)
(* continuation of an async function after an await.  All React state      *)
(* updates of one task are applied together, followed by the mount or      *)
(* unmount effects that the resulting render causes.                       *)
(***************************************************************************)
EXTENDS Naturals, Sequences, FiniteSets, TLC

----------------------------------------------------------------------------
(* Bounds of the model *)

\* pipeline invocations that may be in flight at once
MaxRuns == 2
\* callbacks and streams that may be left outstanding at once: pending
\* FileReader reads, pending capture fetch chains, and unmounted CameraView
\* instances that still await getUserMedia or hold a live stream
MaxPending == 2

----------------------------------------------------------------------------
(* Values *)

\* null of a string-valued slot, and null of an object-valued slot
NULL == "<null>"
Null == [null |-> TRUE]
\* null in a slot that otherwise holds an array
NullArray == <<Null>>

AnalyzeFood == "analyze-food"
ScanLabel == "scan-label"
Kinds == {AnalyzeFood, ScanLabel}

\* files offered to the file input, each named by the data URL that reading
\* it yields; every file is a non-empty image, which the form's resolver
\* (size > 0) accepts
Files == {"file1"}

\* data URLs that canvas.toDataURL yields for a captured frame
Frames == {"frame1"}

\* every data URL that can be staged as preview
Images == Files \cup Frames

\* allergen profiles the external profile store may supply
Profiles == {<<>>, <<"milk">>, <<"milk", "soy">>}

\* Array.prototype.join
RECURSIVE join(_, _)
join(list, sep) ==
    IF list = <<>> THEN ""
    ELSE IF Len(list) = 1 THEN list[1]
    ELSE list[1] \o sep \o join(Tail(list), sep)

\* outputs of classifyFood for a photo; classification names the photo that
\* was classified
FoodDetails ==
    {Null, [ingredients |-> <<>>], [ingredients |-> <<"milk", "sugar">>]}
ClassifyFoodOutputs(photo) ==
    {[classification |-> photo, isFood |-> f, foodDetails |-> d] :
        f \in BOOLEAN, d \in FoodDetails}

\* outputs of extractTextFromImage for a photo: empty, or the label's text
ExtractTextOutputs(photo) == {"", "label of " \o photo}

\* outputs of detectAllergensAndGenerateAlert
Alerts == {"HIGH", "MODERATE", "SAFE"}
DetectAllergensOutputs == {[alert |-> a] : a \in Alerts}

\* JavaScript truthiness of a string, and of an object reference
TruthyString(s) == s # NULL /\ s # ""
TruthyObject(o) == o # Null

----------------------------------------------------------------------------
(* Notifications *)

NoToast == [title |-> NULL, description |-> NULL]
OfflineFoodToast ==
    [title |-> "You're Offline",
     description |-> "An internet connection is required to analyze food."]
OfflineLabelToast ==
    [title |-> "You're Offline",
     description |-> "An internet connection is required to scan labels."]
FoodFailedToast ==
    [title |-> "Analysis Failed", description |-> "Could not analyze the food item."]
LabelFailedToast ==
    [title |-> "Analysis Failed", description |-> "Could not analyze the product label."]

NoImageMessage == "Please select an image first."
FoodFailedMessage == "An error occurred during analysis. Please try again."
LabelFailedMessage == "An error occurred during label analysis. Please try again."


----------------------------------------------------------------------------
VARIABLES
    \* FoodScanner state
    preview, activeTab,
    classificationResult, allergenResult, isClassifyLoading, classifyError,
    isOcrLoading, extractedText, ocrAllergenResult, ocrError,
    isCameraOpen,
    \* environment: navigator.onLine, navigator.mediaDevices, useUser().allergens
    onLine, mediaDevices, userAllergens,
    \* the notification channel: what the last task passed to toast(), NoToast
    \* when it passed nothing
    toast,
    \* pending FileReader reads (file -> count) and pending capture fetch chains
    readers, captures,
    \* pipeline invocations in flight (slot -> invocation, Null when free) and
    \* the remote calls outstanding
    runs, calls,
    \* the mounted CameraView instance (Null when none is mounted), and the
    \* unmounted instances: how many still await getUserMedia, and how many
    \* hold a stream whose tracks are live
    cameraView, detached,
    \* history, read by no handler: an open of the camera has failed since
    \* "Use Camera" was last pressed
    failedOpen,
    \* RecommendationsPage: its React state,
    recommendations, overallReasoning, isLoading, cuisine, error,
    \* the invocation of handleGetRecommendations in flight (Null when none)
    \* and the remote calls it has outstanding
    request, remoteCalls

results ==
    <<classificationResult, allergenResult, classifyError,
      extractedText, ocrAllergenResult, ocrError>>
loading == <<isClassifyLoading, isOcrLoading>>
env == <<onLine, mediaDevices, userAllergens>>
camera == <<cameraView, detached, failedOpen>>
page ==
    <<recommendations, overallReasoning, isLoading, cuisine, error,
      request, remoteCalls>>
foodScanner ==
    <<preview, activeTab, results, loading, isCameraOpen, readers, captures,
      runs, calls, camera>>
vars ==
    <<preview, activeTab, results, loading, isCameraOpen, env, page,
      toast, readers, captures, runs, calls, camera>>

\* staging callbacks that are pending: FileReader reads and capture fetches
RECURSIVE Reads(_)
Reads(fs) ==
    IF fs = {} THEN 0
    ELSE LET f == CHOOSE x \in fs : TRUE IN readers[f] + Reads(fs \ {f})
PendingStagings == Reads(Files) + captures

\* what is left outstanding: pending staging callbacks and unmounted
\* CameraView instances
Outstanding == PendingStagings + detached.pending + detached.live

----------------------------------------------------------------------------
(* CameraView *)

CameraErrorToast ==
    [title |-> "Camera Error",
     description |-> "Could not access the camera. Please try again."]
CameraDeniedToast ==
    [title |-> "Camera Access Denied",
     description |->
        "Please enable camera permissions in your browser settings to use this feature."]
NoCameraToast ==
    [title |-> "No Camera Found",
     description |-> "We couldn't find a camera on your device."]

\* names of the errors getUserMedia rejects with
ErrorNames == {"NotAllowedError", "NotFoundError", "NotReadableError"}

\* the notification startCamera's catch block builds from err.name
CameraToast(name) ==
    IF name = "NotAllowedError" THEN CameraDeniedToast
    ELSE IF name = "NotFoundError" THEN NoCameraToast
    ELSE CameraErrorToast

\* a CameraView instance as constructed: streamRef null, hasPermission null,
\* no getUserMedia request made; tracks is the state of the tracks of the
\* stream that streamRef holds
NewCameraView ==
    [hasPermission |-> NULL, streamRef |-> NULL, getUserMedia |-> "idle",
     tracks |-> "none"]

\* A variant of stopCamera that marks the tracks stopped whether or not a
\* stream is held.
stopCamera_Unconditional(cv) ==
    [cv EXCEPT !.tracks = "stopped", !.streamRef = NULL]

stopCamera(cv) ==
    IF cv.streamRef # NULL
    THEN [cv EXCEPT !.tracks = "stopped", !.streamRef = NULL]
    ELSE cv

\* startCamera up to its await (or, without the capture API, through its
\* catch block): the instance afterwards
startCamera(cv) ==
    IF ~mediaDevices
    THEN [stopCamera(cv) EXCEPT !.hasPermission = "false"]
    ELSE [stopCamera(cv) EXCEPT !.getUserMedia = "pending"]

\* the useEffect of a CameraView that mounts, and its cleanup on unmount
MountEffect(cv) == startCamera(cv)
UnmountCleanup(cv) == stopCamera(cv)

\* an instance that was unmounted joins the detached ones: it matters from
\* then on only by a pending request or by live tracks
Detach(cv) ==
    [pending |-> detached.pending + (IF cv.getUserMedia = "pending" THEN 1 ELSE 0),
     live |-> detached.live + (IF cv.tracks = "live" THEN 1 ELSE 0)]

\* the render condition of <CameraView>, as a function of preview and isCameraOpen
CameraRendered(p, c) == p = NULL /\ c

\* effects of a render with preview p and isCameraOpen c: the CameraView is
\* unmounted or a new one is mounted as the render condition changes; t is
\* the notification channel as the task's own toasts left it
CameraEffects(p, c, t) ==
    IF CameraRendered(preview, isCameraOpen) /\ ~CameraRendered(p, c)
    THEN /\ Detach(UnmountCleanup(cameraView)) # detached
                => Outstanding < MaxPending
         /\ cameraView' = Null
         /\ detached' = Detach(UnmountCleanup(cameraView))
         /\ toast' = t
         /\ UNCHANGED failedOpen
    ELSE IF ~CameraRendered(preview, isCameraOpen) /\ CameraRendered(p, c)
    THEN /\ cameraView' = MountEffect(NewCameraView)
         /\ toast' = IF mediaDevices THEN t ELSE CameraErrorToast
         /\ failedOpen' = IF ~mediaDevices THEN TRUE
                          ELSE IF ~isCameraOpen THEN FALSE
                          ELSE failedOpen
         /\ UNCHANGED detached
    ELSE /\ UNCHANGED camera
         /\ toast' = t

\* startCamera after "await getUserMedia" resolved with a stream, in the
\* mounted instance
GetUserMediaResolves ==
    /\ cameraView # Null
    /\ cameraView.getUserMedia = "pending"
    /\ cameraView' = [cameraView EXCEPT !.getUserMedia = "idle", !.tracks = "live",
                                        !.streamRef = "stream", !.hasPermission = "true"]
    /\ toast' = NoToast
    /\ UNCHANGED <<preview, activeTab, results, loading, isCameraOpen, env, page, readers, captures, runs, calls, detached, failedOpen>>

\* the same in an instance that was unmounted meanwhile: its streamRef takes
\* the stream, its setHasPermission has no effect
GetUserMediaResolvesDetached ==
    /\ detached.pending > 0
    /\ detached' = [pending |-> detached.pending - 1, live |-> detached.live + 1]
    /\ toast' = NoToast
    /\ UNCHANGED <<preview, activeTab, results, loading, isCameraOpen, env, page, readers, captures, runs, calls, cameraView, failedOpen>>

\* the catch block of startCamera after "await getUserMedia" rejected, in the
\* mounted instance
GetUserMediaRejects(name) ==
    /\ cameraView # Null
    /\ cameraView.getUserMedia = "pending"
    /\ cameraView' = [cameraView EXCEPT !.getUserMedia = "idle", !.hasPermission = "false"]
    /\ toast' = (CameraToast(name))
    /\ failedOpen' = TRUE
    /\ UNCHANGED <<preview, activeTab, results, loading, isCameraOpen, env, page, readers, captures, runs, calls, detached>>

\* the same in an instance that was unmounted meanwhile
GetUserMediaRejectsDetached(name) ==
    /\ detached.pending > 0
    /\ detached' = [detached EXCEPT !.pending = @ - 1]
    /\ toast' = (CameraToast(name))
    /\ failedOpen' = TRUE
    /\ UNCHANGED <<preview, activeTab, results, loading, isCameraOpen, env, page, readers, captures, runs, calls, cameraView>>

----------------------------------------------------------------------------
(* FoodScanner: staging and clearing *)

resetResults ==
    /\ classificationResult' = Null
    /\ allergenResult' = Null
    /\ classifyError' = NULL
    /\ extractedText' = NULL
    /\ ocrAllergenResult' = Null
    /\ ocrError' = NULL

\* the upload area (file input and "Use Camera") is rendered and not disabled
UploadAreaEnabled ==
    /\ preview = NULL
    /\ ~isCameraOpen
    /\ ~(isClassifyLoading \/ isOcrLoading)

\* handleFileChange: a file was picked; its read is started
handleFileChange(file) ==
    /\ UploadAreaEnabled
    /\ Outstanding < MaxPending
    /\ readers' = [readers EXCEPT ![file] = @ + 1]
    /\ toast' = NoToast
    /\ UNCHANGED <<preview, activeTab, results, loading, isCameraOpen, env, page, captures, runs, calls, camera>>

\* reader.onloadend: result is the file's data URL, or null when the read failed
onloadend(file, result) ==
    /\ readers[file] > 0
    /\ readers' = [readers EXCEPT ![file] = @ - 1]
    /\ preview' = result
    /\ resetResults
    /\ CameraEffects(result, isCameraOpen, NoToast)
    /\ UNCHANGED <<activeTab, loading, isCameraOpen, env, page, captures, runs, calls>>

\* A variant of handleCapture whose button is enabled whatever hasPermission
\* is.
handleCapture_AlwaysEnabled(dataUri) ==
    /\ cameraView # Null
    /\ Outstanding < MaxPending
    /\ preview' = dataUri
    /\ captures' = captures + 1
    /\ isCameraOpen' = FALSE
    /\ CameraEffects(dataUri, FALSE, NoToast)
    /\ UNCHANGED <<activeTab, results, loading, env, page, readers, runs, calls>>

\* FoodScanner.handleCapture, called by CameraView.handleCapture through
\* onCapture: "Capture Photo" is enabled only while hasPermission is true
handleCapture(dataUri) ==
    /\ cameraView # Null
    /\ cameraView.hasPermission = "true"
    /\ Outstanding < MaxPending
    /\ preview' = dataUri
    /\ captures' = captures + 1
    /\ isCameraOpen' = FALSE
    /\ CameraEffects(dataUri, FALSE, NoToast)
    /\ UNCHANGED <<activeTab, results, loading, env, page, readers, runs, calls>>

\* the .then chain of handleCapture's fetch(dataUri)
captureFetched ==
    /\ captures > 0
    /\ captures' = captures - 1
    /\ resetResults
    /\ toast' = NoToast
    /\ UNCHANGED <<preview, activeTab, loading, isCameraOpen, env, page, readers,
                   runs, calls, camera>>

\* resetState, by the "Clear image" button
resetState ==
    /\ preview # NULL
    /\ ~(isClassifyLoading \/ isOcrLoading)
    /\ preview' = NULL
    /\ resetResults
    /\ isCameraOpen' = FALSE
    /\ CameraEffects(NULL, FALSE, NoToast)
    /\ UNCHANGED <<activeTab, loading, env, page, readers, captures, runs, calls>>

\* openCamera, by the "Use Camera" button: resetState, then setIsCameraOpen(true)
openCamera ==
    /\ UploadAreaEnabled
    /\ preview' = NULL
    /\ resetResults
    /\ isCameraOpen' = TRUE
    /\ CameraEffects(NULL, TRUE, NoToast)
    /\ UNCHANGED <<activeTab, loading, env, page, readers, captures, runs, calls>>

\* onClose, by the "Cancel" button of the CameraView
onClose ==
    /\ CameraRendered(preview, isCameraOpen)
    /\ isCameraOpen' = FALSE
    /\ CameraEffects(preview, FALSE, NoToast)
    /\ UNCHANGED <<preview, activeTab, results, loading, env, page, readers,
                   captures, runs, calls>>

\* Tabs.onValueChange
onValueChange(value) ==
    /\ value # activeTab
    /\ activeTab' = value
    /\ resetResults
    /\ toast' = NoToast
    /\ runs' = [r \in DOMAIN runs |->
                    IF runs[r] # Null THEN [runs[r] EXCEPT !.tabSwitched = TRUE]
                    ELSE Null]
    /\ UNCHANGED <<preview, loading, isCameraOpen, env, page, readers,
                   captures, calls, camera>>

----------------------------------------------------------------------------
(* FoodScanner: the two pipelines *)

\* a pipeline invocation: the values its closure captured (preview and
\* userAllergens of the render it was triggered in) and the await it is at
\* Two history fields record what happened since it was triggered: superseded,
\* that another invocation was triggered; tabSwitched, that the active tab
\* was switched.  No handler reads them.
Run(kind, pc) ==
    [kind |-> kind, photoDataUri |-> preview, userAllergens |-> userAllergens,
     pc |-> pc, superseded |-> FALSE, tabSwitched |-> FALSE]

ClassifyFoodCall(r, photo) ==
    [run |-> r, op |-> "classifyFood", photoDataUri |-> photo]
ExtractTextCall(r, photo) ==
    [run |-> r, op |-> "extractTextFromImage", photoDataUri |-> photo]
DetectAllergensCall(r, ingredients, allergens) ==
    [run |-> r, op |-> "detectAllergensAndGenerateAlert",
     ingredients |-> ingredients, allergens |-> allergens]

Slots == 1 .. MaxRuns
InFlight == {r \in Slots : runs[r] # Null}
FreeSlot == CHOOSE r \in Slots : runs[r] = Null /\ \A q \in Slots : q < r => runs[q] # Null

\* the call a run is awaiting
Awaited(r) == CHOOSE c \in calls : c.run = r /\ c.op = runs[r].pc
Awaiting(r, op) ==
    /\ r \in InFlight
    /\ runs[r].pc = op
    /\ \E c \in calls : c.run = r /\ c.op = op

\* a run starts in a free slot; the runs in flight are superseded by it
Start(run) ==
    [r \in Slots |->
        IF r = FreeSlot THEN run
        ELSE IF runs[r] # Null THEN [runs[r] EXCEPT !.superseded = TRUE]
        ELSE Null]

\* A variant of onSubmit that issues both remote calls at once.
onSubmit_BothCallsAtOnce ==
    IF ~onLine
    THEN /\ toast' = (OfflineFoodToast)
         /\ UNCHANGED <<preview, activeTab, results, loading, isCameraOpen, env, page, readers, captures, runs, calls, camera>>
    ELSE IF preview = NULL
    THEN /\ classifyError' = NoImageMessage
         /\ toast' = NoToast
         /\ UNCHANGED <<preview, activeTab, classificationResult, allergenResult,
                        extractedText, ocrAllergenResult, ocrError, loading,
                        isCameraOpen, env, page, readers, captures,
                        runs, calls, camera>>
    ELSE /\ \E r \in Slots : runs[r] = Null
         /\ isClassifyLoading' = TRUE
         /\ resetResults
         /\ runs' = Start(Run(AnalyzeFood, "classifyFood"))
         /\ calls' = calls \cup {ClassifyFoodCall(FreeSlot, preview),
                                 DetectAllergensCall(FreeSlot, "", userAllergens)}
         /\ toast' = NoToast
         /\ UNCHANGED <<preview, activeTab, isOcrLoading, isCameraOpen, env, page, readers, captures, camera>>

\* A variant of onSubmit without the connectivity check.
onSubmit_NoOfflineCheck ==
    IF preview = NULL
    THEN /\ classifyError' = NoImageMessage
         /\ toast' = NoToast
         /\ UNCHANGED <<preview, activeTab, classificationResult, allergenResult,
                        extractedText, ocrAllergenResult, ocrError, loading,
                        isCameraOpen, env, page, readers, captures,
                        runs, calls, camera>>
    ELSE /\ \E r \in Slots : runs[r] = Null
         /\ isClassifyLoading' = TRUE
         /\ resetResults
         /\ runs' = Start(Run(AnalyzeFood, "classifyFood"))
         /\ calls' = calls \cup {ClassifyFoodCall(FreeSlot, preview)}
         /\ toast' = NoToast
         /\ UNCHANGED <<preview, activeTab, isOcrLoading, isCameraOpen, env, page, readers, captures, camera>>

\* onSubmit, from its entry to its first await (or to its early return)
onSubmit ==
    IF ~onLine
    THEN /\ toast' = (OfflineFoodToast)
         /\ UNCHANGED <<preview, activeTab, results, loading, isCameraOpen, env, page, readers, captures, runs, calls, camera>>
    ELSE IF preview = NULL
    THEN /\ classifyError' = NoImageMessage
         /\ toast' = NoToast
         /\ UNCHANGED <<preview, activeTab, classificationResult, allergenResult,
                        extractedText, ocrAllergenResult, ocrError, loading,
                        isCameraOpen, env, page, readers, captures,
                        runs, calls, camera>>
    ELSE /\ \E r \in Slots : runs[r] = Null
         /\ isClassifyLoading' = TRUE
         /\ resetResults
         /\ runs' = Start(Run(AnalyzeFood, "classifyFood"))
         /\ calls' = calls \cup {ClassifyFoodCall(FreeSlot, preview)}
         /\ toast' = NoToast
         /\ UNCHANGED <<preview, activeTab, isOcrLoading, isCameraOpen, env, page, readers, captures, camera>>

\* A variant of onSubmitClassified that goes on to stage 2 whenever food
\* details are present, food or not.
onSubmitClassified_IgnoresIsFood(r, cfOutput) ==
    /\ Awaiting(r, "classifyFood")
    /\ runs[r].kind = AnalyzeFood
    /\ cfOutput \in ClassifyFoodOutputs(Awaited(r).photoDataUri)
    /\ classificationResult' = cfOutput
    /\ IF TruthyObject(cfOutput.foodDetails)
       THEN /\ runs' = [runs EXCEPT ![r].pc = "detectAllergensAndGenerateAlert"]
            /\ calls' = (calls \ {Awaited(r)}) \cup
                        {DetectAllergensCall(r, join(cfOutput.foodDetails.ingredients, ", "),
                                             runs[r].userAllergens)}
            /\ UNCHANGED isClassifyLoading
       ELSE /\ runs' = [runs EXCEPT ![r] = Null]
            /\ calls' = calls \ {Awaited(r)}
            /\ isClassifyLoading' = FALSE
    /\ toast' = NoToast
    /\ UNCHANGED <<preview, activeTab, allergenResult, classifyError, extractedText,
                   ocrAllergenResult, ocrError, isOcrLoading, isCameraOpen, env, page, readers, captures, camera>>

\* A variant of onSubmitClassified that passes the allergen list of the
\* latest render instead of the one its closure captured.
onSubmitClassified_LatestProfile(r, cfOutput) ==
    /\ Awaiting(r, "classifyFood")
    /\ runs[r].kind = AnalyzeFood
    /\ cfOutput \in ClassifyFoodOutputs(Awaited(r).photoDataUri)
    /\ classificationResult' = cfOutput
    /\ IF cfOutput.isFood /\ TruthyObject(cfOutput.foodDetails)
       THEN /\ runs' = [runs EXCEPT ![r].pc = "detectAllergensAndGenerateAlert"]
            /\ calls' = (calls \ {Awaited(r)}) \cup
                        {DetectAllergensCall(r, join(cfOutput.foodDetails.ingredients, ", "),
                                             userAllergens)}
            /\ UNCHANGED isClassifyLoading
       ELSE /\ runs' = [runs EXCEPT ![r] = Null]
            /\ calls' = calls \ {Awaited(r)}
            /\ isClassifyLoading' = FALSE
    /\ toast' = NoToast
    /\ UNCHANGED <<preview, activeTab, allergenResult, classifyError, extractedText,
                   ocrAllergenResult, ocrError, isOcrLoading, isCameraOpen, env, page, readers, captures, camera>>

\* onSubmit after "await classifyFood" resolved with cfOutput
onSubmitClassified(r, cfOutput) ==
    /\ Awaiting(r, "classifyFood")
    /\ runs[r].kind = AnalyzeFood
    /\ cfOutput \in ClassifyFoodOutputs(Awaited(r).photoDataUri)
    /\ classificationResult' = cfOutput
    /\ IF cfOutput.isFood /\ TruthyObject(cfOutput.foodDetails)
       THEN /\ runs' = [runs EXCEPT ![r].pc = "detectAllergensAndGenerateAlert"]
            /\ calls' = (calls \ {Awaited(r)}) \cup
                        {DetectAllergensCall(r, join(cfOutput.foodDetails.ingredients, ", "),
                                             runs[r].userAllergens)}
            /\ UNCHANGED isClassifyLoading
       ELSE /\ runs' = [runs EXCEPT ![r] = Null]
            /\ calls' = calls \ {Awaited(r)}
            /\ isClassifyLoading' = FALSE
    /\ toast' = NoToast
    /\ UNCHANGED <<preview, activeTab, allergenResult, classifyError, extractedText,
                   ocrAllergenResult, ocrError, isOcrLoading, isCameraOpen, env, page, readers, captures, camera>>

\* onSubmit after "await detectAllergensAndGenerateAlert" resolved with daOutput
onSubmitDetected(r, daOutput) ==
    /\ Awaiting(r, "detectAllergensAndGenerateAlert")
    /\ runs[r].kind = AnalyzeFood
    /\ daOutput \in DetectAllergensOutputs
    /\ allergenResult' = daOutput
    /\ isClassifyLoading' = FALSE
    /\ runs' = [runs EXCEPT ![r] = Null]
    /\ calls' = calls \ {Awaited(r)}
    /\ toast' = NoToast
    /\ UNCHANGED <<preview, activeTab, classificationResult, classifyError,
                   extractedText, ocrAllergenResult, ocrError, isOcrLoading,
                   isCameraOpen, env, page, readers, captures, camera>>

\* A variant of onSubmitCatch that also rolls the recorded results back.
onSubmitCatch_RollsBack(r) ==
    /\ r \in InFlight
    /\ runs[r].kind = AnalyzeFood
    /\ Awaiting(r, runs[r].pc)
    /\ classifyError' = FoodFailedMessage
    /\ toast' = (FoodFailedToast)
    /\ isClassifyLoading' = FALSE
    /\ classificationResult' = Null
    /\ allergenResult' = Null
    /\ runs' = [runs EXCEPT ![r] = Null]
    /\ calls' = calls \ {Awaited(r)}
    /\ UNCHANGED <<preview, activeTab,
                   extractedText, ocrAllergenResult, ocrError, isOcrLoading,
                   isCameraOpen, env, page, readers, captures, camera>>

\* A variant of onSubmitCatch that leaves isClassifyLoading as it is.
onSubmitCatch_StaysLoading(r) ==
    /\ r \in InFlight
    /\ runs[r].kind = AnalyzeFood
    /\ Awaiting(r, runs[r].pc)
    /\ classifyError' = FoodFailedMessage
    /\ toast' = (FoodFailedToast)
    /\ runs' = [runs EXCEPT ![r] = Null]
    /\ calls' = calls \ {Awaited(r)}
    /\ UNCHANGED <<preview, activeTab, classificationResult, allergenResult,
                   extractedText, ocrAllergenResult, ocrError, loading,
                   isCameraOpen, env, page, readers, captures, camera>>

\* the catch block of onSubmit: either awaited call rejected
onSubmitCatch(r) ==
    /\ r \in InFlight
    /\ runs[r].kind = AnalyzeFood
    /\ Awaiting(r, runs[r].pc)
    /\ classifyError' = FoodFailedMessage
    /\ toast' = (FoodFailedToast)
    /\ isClassifyLoading' = FALSE
    /\ runs' = [runs EXCEPT ![r] = Null]
    /\ calls' = calls \ {Awaited(r)}
    /\ UNCHANGED <<preview, activeTab, classificationResult, allergenResult,
                   extractedText, ocrAllergenResult, ocrError, isOcrLoading,
                   isCameraOpen, env, page, readers, captures, camera>>

\* A variant of handleScanLabel without the check that an image is staged.
handleScanLabel_NoImageCheck ==
    IF ~onLine
    THEN /\ toast' = (OfflineLabelToast)
         /\ UNCHANGED <<preview, activeTab, results, loading, isCameraOpen, env, page, readers, captures, runs, calls, camera>>
    ELSE /\ \E r \in Slots : runs[r] = Null
         /\ isOcrLoading' = TRUE
         /\ resetResults
         /\ runs' = Start(Run(ScanLabel, "extractTextFromImage"))
         /\ calls' = calls \cup {ExtractTextCall(FreeSlot, preview)}
         /\ toast' = NoToast
         /\ UNCHANGED <<preview, activeTab, isClassifyLoading, isCameraOpen,
                        env, page, readers, captures, camera>>

\* A variant of handleScanLabel that starts without resetting the results.
handleScanLabel_KeepsResults ==
    IF ~onLine
    THEN /\ toast' = (OfflineLabelToast)
         /\ UNCHANGED <<preview, activeTab, results, loading, isCameraOpen, env, page, readers, captures, runs, calls, camera>>
    ELSE IF preview = NULL
    THEN /\ ocrError' = NoImageMessage
         /\ toast' = NoToast
         /\ UNCHANGED <<preview, activeTab, classificationResult, allergenResult,
                        classifyError, extractedText, ocrAllergenResult, loading,
                        isCameraOpen, env, page, readers, captures,
                        runs, calls, camera>>
    ELSE /\ \E r \in Slots : runs[r] = Null
         /\ isOcrLoading' = TRUE
         /\ runs' = Start(Run(ScanLabel, "extractTextFromImage"))
         /\ calls' = calls \cup {ExtractTextCall(FreeSlot, preview)}
         /\ toast' = NoToast
         /\ UNCHANGED <<preview, activeTab, results, isClassifyLoading, isCameraOpen,
                        env, page, readers, captures, camera>>

\* handleScanLabel, from its entry to its first await (or to its early return)
handleScanLabel ==
    IF ~onLine
    THEN /\ toast' = (OfflineLabelToast)
         /\ UNCHANGED <<preview, activeTab, results, loading, isCameraOpen, env, page, readers, captures, runs, calls, camera>>
    ELSE IF preview = NULL
    THEN /\ ocrError' = NoImageMessage
         /\ toast' = NoToast
         /\ UNCHANGED <<preview, activeTab, classificationResult, allergenResult,
                        classifyError, extractedText, ocrAllergenResult, loading,
                        isCameraOpen, env, page, readers, captures,
                        runs, calls, camera>>
    ELSE /\ \E r \in Slots : runs[r] = Null
         /\ isOcrLoading' = TRUE
         /\ resetResults
         /\ runs' = Start(Run(ScanLabel, "extractTextFromImage"))
         /\ calls' = calls \cup {ExtractTextCall(FreeSlot, preview)}
         /\ toast' = NoToast
         /\ UNCHANGED <<preview, activeTab, isClassifyLoading, isCameraOpen,
                        env, page, readers, captures, camera>>

\* A variant of handleScanLabelExtracted that goes on to stage 2 with any
\* text, empty or not.
handleScanLabelExtracted_AnyText(r, text) ==
    /\ Awaiting(r, "extractTextFromImage")
    /\ runs[r].kind = ScanLabel
    /\ text \in ExtractTextOutputs(Awaited(r).photoDataUri)
    /\ extractedText' = text
    /\ IF text # NULL
       THEN /\ runs' = [runs EXCEPT ![r].pc = "detectAllergensAndGenerateAlert"]
            /\ calls' = (calls \ {Awaited(r)}) \cup
                        {DetectAllergensCall(r, text, runs[r].userAllergens)}
            /\ UNCHANGED isOcrLoading
       ELSE /\ runs' = [runs EXCEPT ![r] = Null]
            /\ calls' = calls \ {Awaited(r)}
            /\ isOcrLoading' = FALSE
    /\ toast' = NoToast
    /\ UNCHANGED <<preview, activeTab, classificationResult, allergenResult,
                   classifyError, ocrAllergenResult, ocrError, isClassifyLoading,
                   isCameraOpen, env, page, readers, captures, camera>>

\* handleScanLabel after "await extractTextFromImage" resolved with text
handleScanLabelExtracted(r, text) ==
    /\ Awaiting(r, "extractTextFromImage")
    /\ runs[r].kind = ScanLabel
    /\ text \in ExtractTextOutputs(Awaited(r).photoDataUri)
    /\ extractedText' = text
    /\ IF TruthyString(text)
       THEN /\ runs' = [runs EXCEPT ![r].pc = "detectAllergensAndGenerateAlert"]
            /\ calls' = (calls \ {Awaited(r)}) \cup
                        {DetectAllergensCall(r, text, runs[r].userAllergens)}
            /\ UNCHANGED isOcrLoading
       ELSE /\ runs' = [runs EXCEPT ![r] = Null]
            /\ calls' = calls \ {Awaited(r)}
            /\ isOcrLoading' = FALSE
    /\ toast' = NoToast
    /\ UNCHANGED <<preview, activeTab, classificationResult, allergenResult,
                   classifyError, ocrAllergenResult, ocrError, isClassifyLoading,
                   isCameraOpen, env, page, readers, captures, camera>>

\* handleScanLabel after "await detectAllergensAndGenerateAlert" resolved
handleScanLabelDetected(r, daOutput) ==
    /\ Awaiting(r, "detectAllergensAndGenerateAlert")
    /\ runs[r].kind = ScanLabel
    /\ daOutput \in DetectAllergensOutputs
    /\ ocrAllergenResult' = daOutput
    /\ isOcrLoading' = FALSE
    /\ runs' = [runs EXCEPT ![r] = Null]
    /\ calls' = calls \ {Awaited(r)}
    /\ toast' = NoToast
    /\ UNCHANGED <<preview, activeTab, classificationResult, allergenResult,
                   classifyError, extractedText, ocrError, isClassifyLoading,
                   isCameraOpen, env, page, readers, captures, camera>>

\* the catch block of handleScanLabel: either awaited call rejected
handleScanLabelCatch(r) ==
    /\ r \in InFlight
    /\ runs[r].kind = ScanLabel
    /\ Awaiting(r, runs[r].pc)
    /\ ocrError' = LabelFailedMessage
    /\ toast' = (LabelFailedToast)
    /\ isOcrLoading' = FALSE
    /\ runs' = [runs EXCEPT ![r] = Null]
    /\ calls' = calls \ {Awaited(r)}
    /\ UNCHANGED <<preview, activeTab, classificationResult, allergenResult,
                   classifyError, extractedText, ocrAllergenResult, isClassifyLoading,
                   isCameraOpen, env, page, readers, captures, camera>>

\* A variant of SubmitEnabled whose button stays enabled while
\* isClassifyLoading is true.
SubmitEnabled_WhileLoading ==
    /\ activeTab = AnalyzeFood
    /\ ~(preview = NULL)

\* the "Analyze Food" submit button is rendered and enabled; the form's
\* resolver accepts the image field (undefined, or a non-empty file), so
\* handleSubmit calls onSubmit
SubmitEnabled ==
    /\ activeTab = AnalyzeFood
    /\ ~(isClassifyLoading \/ preview = NULL)

\* the "Scan Product Label" button is rendered and enabled
ScanEnabled ==
    /\ activeTab = ScanLabel
    /\ ~(isOcrLoading \/ preview = NULL)

submitClicked == SubmitEnabled /\ onSubmit
scanClicked == ScanEnabled /\ handleScanLabel

----------------------------------------------------------------------------
(* RecommendationsPage *)

OfflineRecommendationsToast ==
    [title |-> "You're Offline",
     description |-> "An internet connection is required to get recommendations."]
UpdateProfileToast ==
    [title |-> "Update Your Profile",
     description |->
        "Please add at least one allergen to your profile to get recommendations."]
RecommendationsErrorToast ==
    [title |-> "Error",
     description |-> "Could not fetch recommendations. Please try again."]

ApiKeyMessage ==
    "The API key is missing or invalid. Please add your own Google AI API key to the .env file as instructed in the README."
FetchFailedMessage == "Could not fetch recommendations. Please try again later."

PlaceholderUrl == "https://placehold.co/600x400.png"

\* what the user types into the "Preferred Cuisine" input
Cuisines == {"", "Italian"}

\* outputs of recommendSafeFoods: no, one or two recommended foods
Rice == [name |-> "rice", dataAiHint |-> "bowl"]
Beans == [name |-> "beans", dataAiHint |-> "stew"]
RecommendSafeFoodsOutputs ==
    {[recommendations |-> recs, overallReasoning |-> "reasoning"] :
        recs \in {<<>>, <<Rice>>, <<Rice, Beans>>}}

\* errors that recommendSafeFoods rejects with; a message is the sequence of
\* its words, the empty message has none
Errors ==
    {[message |-> <<"403", "CONSUMER_SUSPENDED", "denied">>],
     [message |-> <<"fetch", "failed">>],
     [message |-> <<>>]}

\* String.prototype.includes, for a word of the message
includes(message, word) == \E i \in DOMAIN message : message[i] = word

RecommendSafeFoodsCall(allergens, cuisinePreference) ==
    [op |-> "recommendSafeFoods", allergens |-> allergens,
     cuisinePreference |-> cuisinePreference]
GenerateFoodImageCall(i, rec) ==
    [op |-> "generateFoodImage", index |-> i,
     foodName |-> rec.name \o ", " \o rec.dataAiHint]

\* outputs of generateFoodImage for a food name
ImageDataUri(foodName) == "image of " \o foodName

\* the input onChange of the cuisine field, disabled while isLoading
setCuisine(value) ==
    /\ ~isLoading
    /\ value # cuisine
    /\ cuisine' = value
    /\ toast' = NoToast
    /\ UNCHANGED <<recommendations, overallReasoning, isLoading, error,
                   request, remoteCalls, foodScanner, env>>

\* A variant of handleGetRecommendations without the check that the
\* allergen list is not empty.
handleGetRecommendations_NoEmptyCheck ==
    IF ~onLine
    THEN /\ toast' = OfflineRecommendationsToast
         /\ UNCHANGED <<page, foodScanner, env>>
    ELSE /\ isLoading' = TRUE
         /\ recommendations' = NullArray
         /\ overallReasoning' = NULL
         /\ error' = NULL
         /\ request' = [allergens |-> userAllergens, pc |-> "recommendSafeFoods",
                        result |-> Null, imageUrl |-> <<>>]
         /\ remoteCalls' =
               {RecommendSafeFoodsCall(userAllergens,
                                       IF TruthyString(cuisine) THEN cuisine ELSE "any")}
         /\ toast' = NoToast
         /\ UNCHANGED <<cuisine, foodScanner, env>>

\* handleGetRecommendations, from its entry to its first await (or to one of
\* its returns)
handleGetRecommendations ==
    IF ~onLine
    THEN /\ toast' = OfflineRecommendationsToast
         /\ UNCHANGED <<page, foodScanner, env>>
    ELSE IF Len(userAllergens) = 0
    THEN /\ isLoading' = FALSE
         /\ recommendations' = NullArray
         /\ overallReasoning' = NULL
         /\ error' = NULL
         /\ toast' = UpdateProfileToast
         /\ UNCHANGED <<cuisine, request, remoteCalls, foodScanner, env>>
    ELSE /\ isLoading' = TRUE
         /\ recommendations' = NullArray
         /\ overallReasoning' = NULL
         /\ error' = NULL
         /\ request' = [allergens |-> userAllergens, pc |-> "recommendSafeFoods",
                        result |-> Null, imageUrl |-> <<>>]
         /\ remoteCalls' =
               {RecommendSafeFoodsCall(userAllergens,
                                       IF TruthyString(cuisine) THEN cuisine ELSE "any")}
         /\ toast' = NoToast
         /\ UNCHANGED <<cuisine, foodScanner, env>>

\* the "Recommend Foods" button, disabled while isLoading
recommendClicked == ~isLoading /\ handleGetRecommendations

\* the recommendations with the image URLs that Promise.all resolved with
Enriched(result, urls) ==
    [i \in 1 .. Len(result.recommendations) |->
        [name |-> result.recommendations[i].name,
         dataAiHint |-> result.recommendations[i].dataAiHint,
         imageUrl |-> urls[i]]]

\* the handler after Promise.all resolved: the two setters, then the finally
\* block
Finish(result, urls) ==
    /\ recommendations' = Enriched(result, urls)
    /\ overallReasoning' = result.overallReasoning
    /\ isLoading' = FALSE
    /\ request' = Null
    /\ remoteCalls' = {}

\* handleGetRecommendations after "await recommendSafeFoods" resolved: one
\* generateFoodImage call per recommendation; Promise.all of none resolves
\* at once
recommendSafeFoodsResolved(result) ==
    /\ request # Null
    /\ request.pc = "recommendSafeFoods"
    /\ result \in RecommendSafeFoodsOutputs
    /\ IF Len(result.recommendations) = 0
       THEN Finish(result, <<>>)
       ELSE /\ request' = [request EXCEPT
                              !.pc = "Promise.all", !.result = result,
                              !.imageUrl = [i \in 1 .. Len(result.recommendations) |-> NULL]]
            /\ remoteCalls' =
                  {GenerateFoodImageCall(i, result.recommendations[i]) :
                      i \in 1 .. Len(result.recommendations)}
            /\ UNCHANGED <<recommendations, overallReasoning, isLoading>>
    /\ toast' = NoToast
    /\ UNCHANGED <<cuisine, error, foodScanner, env>>

\* the catch block of handleGetRecommendations after "await
\* recommendSafeFoods" rejected with err, then the finally block
recommendSafeFoodsRejected(err) ==
    /\ request # Null
    /\ request.pc = "recommendSafeFoods"
    /\ err \in Errors
    /\ error' = IF err.message # <<>> /\ includes(err.message, "CONSUMER_SUSPENDED")
                THEN ApiKeyMessage ELSE FetchFailedMessage
    /\ toast' = RecommendationsErrorToast
    /\ isLoading' = FALSE
    /\ request' = Null
    /\ remoteCalls' = {}
    /\ UNCHANGED <<recommendations, overallReasoning, cuisine, foodScanner, env>>

\* the map callback of recommendation i returns imageUrl; when it is the
\* last one, Promise.all resolves and the handler finishes
ImageSettled(i, imageUrl) ==
    /\ request # Null
    /\ request.pc = "Promise.all"
    /\ \E c \in remoteCalls : c.op = "generateFoodImage" /\ c.index = i
    /\ LET urls == [request.imageUrl EXCEPT ![i] = imageUrl]
           left == {c \in remoteCalls : c.index # i}
       IN  IF left = {}
           THEN Finish(request.result, urls)
           ELSE /\ request' = [request EXCEPT !.imageUrl = urls]
                /\ remoteCalls' = left
                /\ UNCHANGED <<recommendations, overallReasoning, isLoading>>
    /\ toast' = NoToast
    /\ UNCHANGED <<cuisine, error, foodScanner, env>>

\* "await generateFoodImage" of recommendation i resolved
generateFoodImageResolved(i) ==
    /\ \E c \in remoteCalls : c.op = "generateFoodImage" /\ c.index = i
    /\ ImageSettled(i, ImageDataUri((CHOOSE c \in remoteCalls : c.index = i).foodName))

\* "await generateFoodImage" of recommendation i rejected: the inner catch
\* block returns the placeholder
generateFoodImageRejected(i) == ImageSettled(i, PlaceholderUrl)

----------------------------------------------------------------------------
(* Environment *)

\* navigator.onLine changes
connectivityChanges ==
    /\ onLine' = ~onLine
    /\ toast' = NoToast
    /\ UNCHANGED <<preview, activeTab, results, loading, isCameraOpen, mediaDevices, userAllergens, page, readers, captures, runs,
                   calls, camera>>

\* the profile store supplies another allergen list
profileChanges(p) ==
    /\ p # userAllergens
    /\ userAllergens' = p
    /\ toast' = NoToast
    /\ UNCHANGED <<preview, activeTab, results, loading, isCameraOpen, onLine, mediaDevices, page, readers, captures, runs, calls,
                   camera>>

----------------------------------------------------------------------------
(* Specification *)

Init ==
    /\ preview = NULL
    /\ activeTab = AnalyzeFood
    /\ classificationResult = Null
    /\ allergenResult = Null
    /\ isClassifyLoading = FALSE
    /\ classifyError = NULL
    /\ isOcrLoading = FALSE
    /\ extractedText = NULL
    /\ ocrAllergenResult = Null
    /\ ocrError = NULL
    /\ isCameraOpen = FALSE
    /\ onLine = TRUE
    /\ mediaDevices \in BOOLEAN
    /\ userAllergens = <<"milk">>
    /\ toast = NoToast
    /\ readers = [f \in Files |-> 0]
    /\ captures = 0
    /\ runs = [r \in Slots |-> Null]
    /\ calls = {}
    /\ cameraView = Null
    /\ detached = [pending |-> 0, live |-> 0]
    /\ failedOpen = FALSE
    /\ recommendations = NullArray
    /\ overallReasoning = NULL
    /\ isLoading = FALSE
    /\ cuisine = ""
    /\ error = NULL
    /\ request = Null
    /\ remoteCalls = {}

\* picking, reading and clearing files
Upload ==
    \/ \E f \in Files : handleFileChange(f)
    \/ \E f \in Files : \E result \in {f, NULL} : onloadend(f, result)
    \/ resetState

\* opening, cancelling and using the camera
Capture ==
    \/ openCamera
    \/ onClose
    \/ \E dataUri \in Frames : handleCapture(dataUri)
    \/ captureFetched

\* the continuations of the two pipelines
Continuations ==
    \/ \E r \in InFlight :
            \E cfOutput \in UNION {ClassifyFoodOutputs(i) : i \in Images} :
                onSubmitClassified(r, cfOutput)
    \/ \E r \in InFlight : \E daOutput \in DetectAllergensOutputs :
            onSubmitDetected(r, daOutput)
    \/ \E r \in InFlight : onSubmitCatch(r)
    \/ \E r \in InFlight :
            \E text \in UNION {ExtractTextOutputs(i) : i \in Images} :
                handleScanLabelExtracted(r, text)
    \/ \E r \in InFlight : \E daOutput \in DetectAllergensOutputs :
            handleScanLabelDetected(r, daOutput)
    \/ \E r \in InFlight : handleScanLabelCatch(r)

\* the user's actions on the tabs and on the two trigger buttons
Triggers ==
    \/ \E value \in Kinds : onValueChange(value)
    \/ submitClicked
    \/ scanClicked

\* getUserMedia requests that fail, and requests that settle after their
\* CameraView was unmounted
CameraOutcomes ==
    \/ GetUserMediaResolvesDetached
    \/ \E name \in ErrorNames : GetUserMediaRejects(name)
    \/ \E name \in ErrorNames : GetUserMediaRejectsDetached(name)

\* the cuisine field, the "Recommend Foods" button and the continuations of
\* handleGetRecommendations
Recommendations ==
    \/ \E value \in Cuisines : setCuisine(value)
    \/ recommendClicked
    \/ \E result \in RecommendSafeFoodsOutputs : recommendSafeFoodsResolved(result)
    \/ \E err \in Errors : recommendSafeFoodsRejected(err)
    \/ \E i \in 1 .. 2 : generateFoodImageResolved(i)
    \/ \E i \in 1 .. 2 : generateFoodImageRejected(i)

\* the complete system
Next ==
    \/ Upload
    \/ Capture
    \/ GetUserMediaResolves
    \/ CameraOutcomes
    \/ Triggers
    \/ Continuations
    \/ connectivityChanges
    \/ \E p \in Profiles : profileChanges(p)
    \/ Recommendations

Spec == Init /\ [][Next]_vars

\* The FoodScanner with a camera whose requests are granted while its
\* CameraView is mounted, and with the allergen profile unchanged: every
\* handler and continuation of the FoodScanner, under every interleaving.
NextScanner ==
    \/ Upload
    \/ Capture
    \/ GetUserMediaResolves
    \/ Triggers
    \/ Continuations

InitSupported == Init /\ mediaDevices = TRUE

SpecScanner == InitSupported /\ [][NextScanner]_vars

\* The CameraView with every outcome of its requests, mounted and unmounted
\* by the FoodScanner's staging handlers; no pipeline runs, so no handler is
\* disabled by a loading flag.
NextCamera ==
    \/ Upload
    \/ Capture
    \/ GetUserMediaResolves
    \/ CameraOutcomes

SpecCamera == Init /\ [][NextCamera]_vars

\* The FoodScanner without its camera, with connectivity that comes and goes.
NextOffline ==
    \/ Upload
    \/ Triggers
    \/ Continuations
    \/ connectivityChanges

SpecOffline == InitSupported /\ [][NextOffline]_vars

\* The two pipeline handlers called whether or not an image is staged and
\* whichever tab is active, while no invocation of the same handler is
\* in flight.
submitted == ~isClassifyLoading /\ onSubmit
scanRequested == ~isOcrLoading /\ handleScanLabel

NextHandlers ==
    \/ Upload
    \/ submitted
    \/ scanRequested
    \/ Continuations
    \/ connectivityChanges

SpecHandlers == InitSupported /\ [][NextHandlers]_vars

\* The FoodScanner without its camera, with an allergen profile that the
\* profile store replaces at any moment.
NextProfile ==
    \/ Upload
    \/ Triggers
    \/ Continuations
    \/ \E p \in Profiles : profileChanges(p)

SpecProfile == InitSupported /\ [][NextProfile]_vars

\* The RecommendationsPage, with connectivity that comes and goes and an
\* allergen profile that the profile store replaces at any moment.
NextRecommendations ==
    \/ Recommendations
    \/ connectivityChanges
    \/ \E p \in Profiles : profileChanges(p)

SpecRecommendations == InitSupported /\ [][NextRecommendations]_vars

\* the awaited remote call of the invocation in slot r resolves or rejects
CallSettles(r) ==
    \/ \E cfOutput \in UNION {ClassifyFoodOutputs(i) : i \in Images} :
            onSubmitClassified(r, cfOutput)
    \/ \E daOutput \in DetectAllergensOutputs : onSubmitDetected(r, daOutput)
    \/ onSubmitCatch(r)
    \/ \E text \in UNION {ExtractTextOutputs(i) : i \in Images} :
            handleScanLabelExtracted(r, text)
    \/ \E daOutput \in DetectAllergensOutputs : handleScanLabelDetected(r, daOutput)
    \/ handleScanLabelCatch(r)

\* The FoodScanner without its camera, where every remote call that was
\* issued eventually resolves or rejects.
SpecLive ==
    /\ InitSupported
    /\ [][NextOffline]_vars
    /\ \A r \in Slots : WF_vars(CallSettles(r))

----------------------------------------------------------------------------
(* What the FoodScanner renders *)

\* A variant of getAlertBadgeProps without the MODERATE case.
getAlertBadgeProps_NoModerate(alertLevel) ==
    CASE alertLevel = "HIGH" -> "HIGH RISK"
      [] alertLevel = "SAFE" -> "SAFE"
      [] OTHER -> "UNKNOWN"

getAlertBadgeProps(alertLevel) ==
    CASE alertLevel = "HIGH" -> "HIGH RISK"
      [] alertLevel = "MODERATE" -> "MODERATE RISK"
      [] alertLevel = "SAFE" -> "SAFE"
      [] OTHER -> "UNKNOWN"

classifyBadgeProps ==
    IF TruthyObject(allergenResult) THEN getAlertBadgeProps(allergenResult.alert)
    ELSE getAlertBadgeProps(NULL)
ocrBadgeProps ==
    IF TruthyObject(ocrAllergenResult) THEN getAlertBadgeProps(ocrAllergenResult.alert)
    ELSE getAlertBadgeProps(NULL)

\* the loading indication under the upload area
Spinner == isClassifyLoading \/ isOcrLoading

\* the error alert of the active tab
ErrorAlert == IF activeTab = AnalyzeFood THEN classifyError ELSE ocrError

\* the result card of the active tab
ResultCard ==
    IF activeTab = AnalyzeFood
    THEN IF TruthyObject(classificationResult)
         THEN [stage1 |-> classificationResult, stage2 |-> allergenResult,
               badge |-> classifyBadgeProps]
         ELSE Null
    ELSE IF extractedText # NULL
         THEN [stage1 |-> extractedText, stage2 |-> ocrAllergenResult,
               badge |-> ocrBadgeProps]
         ELSE Null

\* the awaited call of invocation r settles in this step
Settles(r) == r \in InFlight /\ Awaited(r) \notin calls'

----------------------------------------------------------------------------
(* Properties *)

\* C1 (Staleness): when the awaited call of an invocation settles after a
\* newer invocation was triggered, and the active tab is the newer one's,
\* the step changes neither the loading indication, nor the error, nor the
\* result shown.
C1_Staleness ==
    [][\A r \in Slots :
          (Settles(r) /\ runs[r].superseded /\ activeTab # runs[r].kind)
              => /\ Spinner' = Spinner
                 /\ ErrorAlert' = ErrorAlert
                 /\ ResultCard' = ResultCard]_vars

\* C2 (Image/run correspondence): a recorded stage-1 result was produced
\* from the image that is staged as preview.
C2_ImageRunCorrespondence ==
    /\ TruthyObject(classificationResult)
           => classificationResult.classification = preview
    /\ TruthyString(extractedText)
           => extractedText \in ExtractTextOutputs(preview)

\* C3 (Tab-switch detach): when the awaited call of an invocation settles
\* after the active tab was switched during the invocation, the step shows
\* nothing new in the result card, whichever tab is active by then.
C3_TabSwitchDetach ==
    [][\A r \in Slots :
          (Settles(r) /\ runs[r].tabSwitched) => ResultCard' = ResultCard]_vars

\* the streams with live tracks, of the mounted CameraView and of the
\* unmounted ones
LiveStreams ==
    (IF cameraView # Null /\ cameraView.tracks = "live" THEN 1 ELSE 0)
        + detached.live

\* C4 (Camera exclusivity): at most one camera stream is live at any time.
C4_CameraExclusivity == LiveStreams <= 1

\* C5 (Camera release): no stream of an unmounted CameraView is live.
C5_CameraRelease == detached.live = 0

\* the first remote call of a pipeline kind
Stage1(kind) ==
    IF kind = AnalyzeFood THEN "classifyFood" ELSE "extractTextFromImage"

\* the stage-2 calls of invocation r that this step issues
IssuedStage2(r) ==
    {c \in calls' \ calls :
        c.run = r /\ c.op = "detectAllergensAndGenerateAlert"}

\* C6 (Stage ordering): an invocation never has two remote calls
\* outstanding, and its stage-2 call is issued only by the step in which
\* its stage-1 call settles with a result that the step records, without
\* reporting a failure.
C6_StageOrdering ==
    [][\A r \in Slots :
          /\ Cardinality({c \in calls' : c.run = r}) <= 1
          /\ IssuedStage2(r) # {}
                => /\ Awaiting(r, Stage1(runs[r].kind))
                   /\ Settles(r)
                   /\ IF runs[r].kind = AnalyzeFood
                      THEN /\ classificationResult' \in
                                  ClassifyFoodOutputs(runs[r].photoDataUri)
                           /\ classifyError' = classifyError
                      ELSE /\ extractedText' \in
                                  ExtractTextOutputs(runs[r].photoDataUri)
                           /\ ocrError' = ocrError
                   /\ toast' = NoToast]_vars

\* a stage-2 call is outstanding after stage 1 was recorded
C6_Witness ==
    \E r \in Slots :
        /\ Awaiting(r, "detectAllergensAndGenerateAlert")
        /\ runs[r].kind = AnalyzeFood
        /\ TruthyObject(classificationResult)

\* C7 (AnalyzeFood skip): when classifyFood resolves with isFood false or
\* foodDetails absent, the invocation issues no stage-2 call and returns,
\* leaving isClassifyLoading false, classifyError null, the classification
\* recorded, no allergen result and the badge UNKNOWN; and no step issues a
\* stage-2 call for an AnalyzeFood invocation unless the classification it
\* records is of a food with details.
C7_AnalyzeFoodSkip ==
    [][\A r \in Slots :
          /\ Settles(r) =>
                \A o \in {c \in ClassifyFoodOutputs(runs[r].photoDataUri) :
                             ~(c.isFood /\ c.foodDetails # Null)} :
                    onSubmitClassified(r, o)
                        => /\ calls' = calls \ {Awaited(r)}
                           /\ runs'[r] = Null
                           /\ isClassifyLoading' = FALSE
                           /\ classifyError' = NULL
                           /\ classificationResult' = o
                           /\ allergenResult' = Null
                           /\ classifyBadgeProps' = "UNKNOWN"
          /\ (r \in InFlight /\ runs[r].kind = AnalyzeFood /\ IssuedStage2(r) # {})
                => /\ classificationResult'.isFood
                   /\ classificationResult'.foodDetails # Null]_vars

\* an AnalyzeFood invocation has returned after a classification that is
\* not of a food with details
C7_Witness ==
    /\ TruthyObject(classificationResult)
    /\ ~(classificationResult.isFood /\ classificationResult.foodDetails # Null)
    /\ ~isClassifyLoading
    /\ \A r \in InFlight : runs[r].kind # AnalyzeFood
    /\ allergenResult = Null
    /\ classifyBadgeProps = "UNKNOWN"
    /\ activeTab = AnalyzeFood

\* C8 (ScanLabel skip): when extractTextFromImage resolves with the empty
\* text, the invocation issues no stage-2 call and returns, leaving
\* extractedText the empty string (not null), isOcrLoading false, no error
\* and no allergen result; and no step issues a stage-2 call for a ScanLabel
\* invocation unless the text it records is non-empty.
C8_ScanLabelSkip ==
    [][\A r \in Slots :
          /\ (Settles(r) /\ handleScanLabelExtracted(r, ""))
                => /\ calls' = calls \ {Awaited(r)}
                   /\ runs'[r] = Null
                   /\ extractedText' = ""
                   /\ extractedText' # NULL
                   /\ isOcrLoading' = FALSE
                   /\ ocrError' = NULL
                   /\ ocrAllergenResult' = Null
                   /\ toast' = NoToast
          /\ (r \in InFlight /\ runs[r].kind = ScanLabel /\ IssuedStage2(r) # {})
                => TruthyString(extractedText')]_vars

\* a ScanLabel invocation has returned after an empty extraction
C8_Witness ==
    /\ extractedText = ""
    /\ ~isOcrLoading
    /\ \A r \in InFlight : runs[r].kind # ScanLabel
    /\ ocrError = NULL
    /\ ocrAllergenResult = Null
    /\ activeTab = ScanLabel

\* C9 (Offline precondition): a trigger while navigator.onLine is false
\* starts no invocation and issues no remote call, leaves the loading flags
\* false as they were and the results and errors as they were, and emits the
\* Offline notification of its kind.
C9_OfflinePrecondition ==
    [][/\ (submitClicked /\ ~onLine)
            => /\ toast' = OfflineFoodToast
               /\ ~isClassifyLoading /\ ~isClassifyLoading'
               /\ UNCHANGED <<results, loading, runs, calls, preview>>
       /\ (scanClicked /\ ~onLine)
            => /\ toast' = OfflineLabelToast
               /\ ~isOcrLoading /\ ~isOcrLoading'
               /\ UNCHANGED <<results, loading, runs, calls, preview>>
       /\ ~onLine => \A r \in Slots : runs[r] = Null => runs'[r] = Null]_vars

\* the Offline notification was emitted while an image was staged and
\* earlier results were on record
C9_Witness ==
    /\ toast = OfflineFoodToast
    /\ ~onLine
    /\ preview # NULL
    /\ TruthyObject(classificationResult)
    /\ ~isClassifyLoading

\* C10 (NoImage precondition): a trigger while online with no image staged
\* records the NoImage error of its kind, starts no invocation, issues no
\* remote call and leaves the loading flags as they were, false for its
\* kind; it emits no notification.  While offline the same trigger emits the
\* Offline notification and records no error.
C10_NoImagePrecondition ==
    [][/\ (submitted /\ onLine /\ preview = NULL)
            => /\ classifyError' = NoImageMessage
               /\ toast' = NoToast
               /\ ~isClassifyLoading'
               /\ UNCHANGED <<loading, runs, calls, preview, ocrError,
                              classificationResult, allergenResult,
                              extractedText, ocrAllergenResult>>
       /\ (scanRequested /\ onLine /\ preview = NULL)
            => /\ ocrError' = NoImageMessage
               /\ toast' = NoToast
               /\ ~isOcrLoading'
               /\ UNCHANGED <<loading, runs, calls, preview, classifyError,
                              classificationResult, allergenResult,
                              extractedText, ocrAllergenResult>>
       /\ (submitted /\ ~onLine /\ preview = NULL)
            => toast' = OfflineFoodToast /\ classifyError' = classifyError
       /\ (scanRequested /\ ~onLine /\ preview = NULL)
            => toast' = OfflineLabelToast /\ ocrError' = ocrError]_vars

\* the NoImage error of ScanLabel is on record, nothing is staged and no
\* ScanLabel invocation is in flight
C10_Witness ==
    /\ ocrError = NoImageMessage
    /\ preview = NULL
    /\ onLine
    /\ ~isOcrLoading
    /\ \A r \in InFlight : runs[r].kind # ScanLabel

C12_IncrementalProgress ==
    \A r \in Slots :
        Awaiting(r, "detectAllergensAndGenerateAlert")
            => IF runs[r].kind = AnalyzeFood
               THEN /\ TruthyObject(classificationResult)
                    /\ isClassifyLoading
                    /\ allergenResult = Null
               ELSE /\ extractedText # NULL
                    /\ isOcrLoading
                    /\ ocrAllergenResult = Null

\* the loading flag of a pipeline kind
LoadingFlag(kind) ==
    IF kind = AnalyzeFood THEN isClassifyLoading ELSE isOcrLoading

Derived(result, badge) ==
    /\ badge = "HIGH RISK" <=> (result # Null /\ result.alert = "HIGH")
    /\ badge = "MODERATE RISK" <=> (result # Null /\ result.alert = "MODERATE")
    /\ badge = "SAFE" <=> (result # Null /\ result.alert = "SAFE")
    /\ badge = "UNKNOWN" <=> (result = Null \/ result.alert \notin Alerts)

\* C14 (Risk derivation): the badge of each kind is HIGH, MODERATE or SAFE
\* exactly when an allergen result of that level is recorded for the kind
\* and UNKNOWN otherwise, a level outside the three included; and when the
\* stage-2 call of an AnalyzeFood invocation resolves with HIGH, the
\* invocation returns with its loading flag false and the badge HIGH.
C14_RiskDerivation ==
    [][/\ Derived(allergenResult, classifyBadgeProps)
       /\ Derived(ocrAllergenResult, ocrBadgeProps)
       /\ Derived(allergenResult, classifyBadgeProps)'
       /\ Derived(ocrAllergenResult, ocrBadgeProps)'
       /\ \A a \in {"LOW", "high", "", NULL} : getAlertBadgeProps(a) = "UNKNOWN"
       /\ \A r \in Slots :
             (Settles(r) /\ onSubmitDetected(r, [alert |-> "HIGH"]))
                 => /\ classifyBadgeProps' = "HIGH RISK"
                    /\ ~isClassifyLoading'
                    /\ classifyError' = classifyError
                    /\ runs'[r] = Null]_vars

\* an AnalyzeFood invocation on a food with details has returned with an
\* allergen result of level HIGH
C14_Witness ==
    /\ TruthyObject(classificationResult)
    /\ classificationResult.isFood
    /\ classificationResult.foodDetails # Null
    /\ allergenResult = [alert |-> "HIGH"]
    /\ classifyBadgeProps = "HIGH RISK"
    /\ ~isClassifyLoading
    /\ classifyError = NULL

\* the values a CameraView instance can take
CameraViews ==
    [hasPermission : {NULL, "true", "false"}, streamRef : {NULL, "stream"},
     getUserMedia : {"idle", "pending"}, tracks : {"none", "live", "stopped"}]

\* C15 (close idempotence): stopCamera on an instance that holds no stream
\* returns the instance unchanged, and stopCamera applied twice gives what
\* stopCamera applied once gives; for every instance value, the mounted one
\* included.
C15_CloseIdempotence ==
    /\ cameraView # Null => cameraView \in CameraViews
    /\ \A cv \in CameraViews :
          /\ cv.streamRef = NULL => stopCamera(cv) = cv
          /\ stopCamera(stopCamera(cv)) = stopCamera(cv)
          /\ stopCamera(cv).streamRef = NULL
          /\ stopCamera(cv).tracks # "live" \/ cv.streamRef = NULL

\* a CameraView was unmounted before it held a stream (its cleanup ran
\* stopCamera with nothing to stop) and another one has mounted since
\* (startCamera ran stopCamera first) and holds none
C15_Witness ==
    /\ detached.pending > 0
    /\ cameraView # Null
    /\ cameraView.streamRef = NULL
    /\ cameraView.tracks = "none"

\* a mounted CameraView with hasPermission true holds a live stream
Granted ==
    (cameraView # Null /\ cameraView.hasPermission = "true")
        => (cameraView.streamRef # NULL /\ cameraView.tracks = "live")

\* C16 (Capture precondition): a step that delivers a frame through
\* onCapture starts in a state where the mounted CameraView has
\* hasPermission true and holds a stream whose tracks are live; and a
\* mounted CameraView with hasPermission true always holds a live stream.
C16_CapturePrecondition ==
    [][/\ Granted
       /\ Granted'
       /\ ((\E dataUri \in Frames : handleCapture(dataUri))
               \/ (preview' \in Frames /\ preview \notin Frames))
             => /\ cameraView # Null
                /\ cameraView.hasPermission = "true"
                /\ cameraView.streamRef # NULL
                /\ cameraView.tracks = "live"]_vars

\* a frame was captured and staged, and the CameraView that delivered it is
\* unmounted
C16_Witness ==
    /\ preview \in Frames
    /\ captures > 0
    /\ cameraView = Null
    /\ ~isCameraOpen

\* a CameraView mounts in this step
Mounts == cameraView = Null /\ cameraView' # Null

\* C17 (Camera open failure classification): every failing open leaves
\* hasPermission false and no stream held, and emits a notification that
\* tells its cause: the NotAllowed one on NotAllowedError, the NotFound one
\* on NotFoundError, the generic one on any other rejection, and one of its
\* own, different from those three, when the capture API is absent; the
\* NotAllowed and NotFound notifications differ.
C17_CameraErrorClassification ==
    [][/\ CameraDeniedToast # NoCameraToast
       /\ \A name \in ErrorNames :
             GetUserMediaRejects(name)
                 => /\ cameraView'.hasPermission = "false"
                    /\ cameraView'.streamRef = NULL
                    /\ toast' = (CASE name = "NotAllowedError" -> CameraDeniedToast
                                   [] name = "NotFoundError" -> NoCameraToast
                                   [] OTHER -> CameraErrorToast)
       /\ (Mounts /\ ~mediaDevices)
             => /\ cameraView'.hasPermission = "false"
                /\ cameraView'.streamRef = NULL
                /\ toast' \notin {NoToast, CameraDeniedToast, NoCameraToast,
                                  CameraErrorToast}]_vars

\* every result and error slot is null
AllClear ==
    /\ classificationResult = Null
    /\ allergenResult = Null
    /\ classifyError = NULL
    /\ extractedText = NULL
    /\ ocrAllergenResult = Null
    /\ ocrError = NULL

\* C18 (Atomic staging): the step that replaces the staged image also
\* resets every result and error, and while the reset of a capture is still
\* to come no remote call is issued and none settles.
C18_AtomicStaging ==
    [][/\ preview' # preview => AllClear'
       /\ captures > 0 => calls' = calls]_vars

\* C19 (Mutual exclusion across kinds): isClassifyLoading and isOcrLoading
\* are never both true, and at most one invocation is in flight.
C19_MutualExclusion ==
    /\ ~(isClassifyLoading /\ isOcrLoading)
    /\ Cardinality(InFlight) <= 1

\* the results and the error recorded for a pipeline kind
ResultsOf(kind) ==
    IF kind = AnalyzeFood
    THEN <<classificationResult, allergenResult, classifyError>>
    ELSE <<extractedText, ocrAllergenResult, ocrError>>

\* C20 (Tab switch clearing): a step that switches the active tab clears the
\* results and the error of the kind that was active, leaves preview,
\* isCameraOpen and the loading flags as they were, and leaves the results
\* and the error recorded for the kind that becomes active as they were.
C20_TabSwitchClearing ==
    [][activeTab' # activeTab
          => /\ activeTab = AnalyzeFood
                    => ResultsOf(AnalyzeFood)' = <<Null, Null, NULL>>
             /\ activeTab = ScanLabel
                    => ResultsOf(ScanLabel)' = <<NULL, Null, NULL>>
             /\ UNCHANGED <<preview, isCameraOpen, loading>>
             /\ \A kind \in Kinds :
                    activeTab' = kind => ResultsOf(kind)' = ResultsOf(kind)]_vars

\* no image is staged, no result or error is recorded, the camera is closed
\* and no stream has live tracks
Idle ==
    /\ preview = NULL
    /\ AllClear
    /\ ~isCameraOpen
    /\ cameraView = Null
    /\ LiveStreams = 0

\* C21 (Clear to Idle): a step of the "Clear image" button ends with no image
\* staged, every result and error null, the camera closed and no stream
\* live; and the button is enabled in no state where an invocation is in
\* flight.
C21_ClearToIdle ==
    [][/\ resetState => Idle'
       /\ ENABLED resetState => InFlight = {}]_vars

\* startCamera issues a getUserMedia request in this step
RequestIssued ==
    /\ cameraView' # Null
    /\ cameraView'.getUserMedia = "pending"
    /\ cameraView = Null \/ cameraView.getUserMedia # "pending"

\* an open of the camera fails in this step
OpenFails ==
    \/ \E name \in ErrorNames : GetUserMediaRejects(name)
    \/ \E name \in ErrorNames : GetUserMediaRejectsDetached(name)
    \/ Mounts /\ ~mediaDevices

\* C22 (Open failures reported once, never retried): a step in which an open
\* fails emits one notification, and once an open has failed a getUserMedia
\* request is issued only by a step of the "Use Camera" button.
C22_OpenFailureNoRetry ==
    [][/\ OpenFails
             => toast' \in {CameraErrorToast, CameraDeniedToast, NoCameraToast}
       /\ (failedOpen /\ RequestIssued) => openCamera]_vars

\* an invocation starts in slot r in this step
Starts(r) == runs[r] = Null /\ runs'[r] # Null

\* the stage-1 operation of a pipeline kind
Stage1Op(kind) ==
    IF kind = AnalyzeFood THEN "classifyFood" ELSE "extractTextFromImage"

\* C23 (Run start resets): a click on a trigger that passes the connectivity
\* and the image checks starts an invocation, and the step that starts an
\* invocation ends with the loading flag of its kind true, the six result
\* and error slots null, and the invocation awaiting its stage-1 call, which
\* is issued in this step.
C23_RunStartResets ==
    [][/\ (onLine /\ preview # NULL /\ (submitClicked \/ scanClicked))
             => \E r \in Slots : Starts(r)
       /\ \A r \in Slots :
             Starts(r)
                 => /\ onLine /\ preview # NULL
                    /\ IF runs'[r].kind = AnalyzeFood
                       THEN isClassifyLoading' ELSE isOcrLoading'
                    /\ AllClear'
                    /\ runs'[r].pc = Stage1Op(runs'[r].kind)
                    /\ \E c \in calls' \ calls :
                          /\ c.run = r
                          /\ c.op = Stage1Op(runs'[r].kind)
                          /\ c.photoDataUri = preview]_vars

\* an invocation awaits its stage-1 call with its loading flag true and every
\* slot null, having started while an earlier invocation was in flight
C23_Witness ==
    \E r \in InFlight :
        /\ runs[r].pc = Stage1Op(runs[r].kind)
        /\ ~runs[r].superseded
        /\ LoadingFlag(runs[r].kind)
        /\ AllClear
        /\ \E q \in InFlight : runs[q].superseded

\* the text of an ingredient list: its elements in order, separated by ", "
IngredientsText(list) ==
    CASE Len(list) = 0 -> ""
      [] Len(list) = 1 -> list[1]
      [] Len(list) = 2 -> list[1] \o ", " \o list[2]

\* the detectAllergensAndGenerateAlert call that invocation r issues in
\* this step
IssuesDetect(r, c) ==
    /\ c \in calls' \ calls
    /\ c.run = r
    /\ c.op = "detectAllergensAndGenerateAlert"

\* C24 (Stage-2 inputs): every detectAllergensAndGenerateAlert call is issued
\* by an invocation in flight in the step where its stage-1 call resolves;
\* its ingredients are the ingredient list of the classification recorded in
\* that step, joined in order with ", " (the empty text for the empty
\* list), or the extracted text recorded in that step, unchanged; its
\* allergens are the profile that was current when the invocation was
\* triggered; and the profile changes only by a step of the profile store.
C24_Stage2Inputs ==
    [][/\ \A c \in calls' \ calls :
             c.op = "detectAllergensAndGenerateAlert"
                 => /\ c.run \in InFlight
                    /\ Settles(c.run)
                    /\ runs[c.run].pc = Stage1Op(runs[c.run].kind)
       /\ \A r \in InFlight : \A c \in calls' :
             IssuesDetect(r, c)
                 => /\ c.allergens = runs[r].userAllergens
                    /\ IF runs[r].kind = AnalyzeFood
                       THEN /\ classificationResult' # Null
                            /\ classificationResult'.classification = runs[r].photoDataUri
                            /\ classificationResult'.foodDetails # Null
                            /\ c.ingredients =
                                  IngredientsText(classificationResult'.foodDetails.ingredients)
                       ELSE /\ extractedText' = "label of " \o runs[r].photoDataUri
                            /\ c.ingredients = extractedText'
       /\ \A r \in Slots :
             /\ Starts(r) => runs'[r].userAllergens = userAllergens
             /\ (runs[r] # Null /\ runs'[r] # Null)
                   => runs'[r].userAllergens = runs[r].userAllergens
       /\ userAllergens' # userAllergens
             => \E p \in Profiles : profileChanges(p)]_vars

\* two stage-2 calls are outstanding, one for the empty ingredient list and
\* one for an extracted text, each with the profile of its trigger, which the
\* profile store has replaced since
C24_Witness ==
    /\ \E c \in calls :
          /\ c.op = "detectAllergensAndGenerateAlert"
          /\ runs[c.run].kind = AnalyzeFood
          /\ c.ingredients = ""
          /\ c.allergens # userAllergens
    /\ \E c \in calls :
          /\ c.op = "detectAllergensAndGenerateAlert"
          /\ runs[c.run].kind = ScanLabel
          /\ c.ingredients # ""
          /\ c.allergens = runs[c.run].userAllergens

\* the invocations of a pipeline kind that passed the handler's checks and
\* have not returned
InFlightOf(kind) == {r \in InFlight : runs[r].kind = kind}

\* C25 (Loading flag invariant): isClassifyLoading is true exactly when an
\* AnalyzeFood invocation is in flight, isOcrLoading exactly when a
\* ScanLabel invocation is; at most one invocation of each kind is in
\* flight; and every invocation in flight awaits one outstanding call.
C25_LoadingFlagInvariant ==
    /\ \A kind \in Kinds :
          /\ LoadingFlag(kind) <=> InFlightOf(kind) # {}
          /\ Cardinality(InFlightOf(kind)) <= 1
    /\ \A r \in InFlight : Awaiting(r, runs[r].pc)
    /\ \A c \in calls : c.run \in InFlight /\ c.op = runs[c.run].pc

\* both loading flags are true: an AnalyzeFood invocation awaits its second
\* call and a ScanLabel invocation its first, while isClassifyLoading
\* disables the "Analyze Food" button of the active tab
C25_Witness ==
    /\ isClassifyLoading /\ isOcrLoading
    /\ activeTab = AnalyzeFood /\ preview # NULL
    /\ \E r \in InFlightOf(AnalyzeFood) :
          runs[r].pc = "detectAllergensAndGenerateAlert"
    /\ \E r \in InFlightOf(ScanLabel) : runs[r].pc = "extractTextFromImage"

\* C26 (Result-slot consistency): a recorded allergenResult goes with a
\* recorded classificationResult whose isFood is true and whose foodDetails
\* are present, and a recorded ocrAllergenResult goes with a recorded,
\* non-empty extractedText.
C26_ResultSlotConsistency ==
    /\ allergenResult # Null
          => /\ classificationResult # Null
             /\ classificationResult.isFood
             /\ classificationResult.foodDetails # Null
    /\ ocrAllergenResult # Null
          => /\ extractedText # NULL
             /\ extractedText # ""

\* C27 (Recommendation request): handleGetRecommendations issues a
\* recommendSafeFoods call only when online and with a profile that is not
\* empty; isLoading is true exactly while an invocation awaits a remote
\* call, so it is false once the handler has finished, on the empty-profile
\* path too; a rejection of recommendSafeFoods sets error, to the API key
\* message when the error message includes CONSUMER_SUSPENDED and to the
\* generic message otherwise, the two being different, and emits the error
\* notification; a rejection of generateFoodImage sets no error, and the
\* request then finishes with every recommendation, the one whose image
\* failed carrying the placeholder URL.
C27_RecommendationRequest ==
    [][/\ ApiKeyMessage # FetchFailedMessage
       /\ (isLoading <=> request # Null) /\ (isLoading' <=> request' # Null)
       /\ request = Null => remoteCalls = {}
       /\ error # NULL => recommendations = NullArray
       /\ (recommendClicked /\ (~onLine \/ Len(userAllergens) = 0))
             => /\ remoteCalls' = {}
                /\ request' = Null
                /\ ~isLoading'
                /\ toast' \in {OfflineRecommendationsToast, UpdateProfileToast}
       /\ \A c \in remoteCalls' \ remoteCalls :
             c.op = "recommendSafeFoods"
                 => /\ onLine
                    /\ Len(userAllergens) > 0
                    /\ c.allergens = userAllergens
       /\ (request # Null /\ request' = Null) => ~isLoading'
       /\ \A err \in Errors :
             recommendSafeFoodsRejected(err)
                 => /\ error' \in {ApiKeyMessage, FetchFailedMessage}
                    /\ error' = ApiKeyMessage
                          <=> includes(err.message, "CONSUMER_SUSPENDED")
                    /\ toast' = RecommendationsErrorToast
                    /\ recommendations' = NullArray
       /\ \A i \in 1 .. 2 :
             generateFoodImageRejected(i)
                 => /\ error' = NULL
                    /\ request' = Null
                          => /\ recommendations' # NullArray
                             /\ Len(recommendations') = Len(request.result.recommendations)
                             /\ recommendations'[i].imageUrl = PlaceholderUrl]_vars

\* a request has finished without an error although the image of its first
\* recommendation could not be generated: that one carries the placeholder,
\* the other one its generated image
C27_Witness ==
    /\ ~isLoading
    /\ request = Null
    /\ error = NULL
    /\ recommendations # NullArray
    /\ Len(recommendations) = 2
    /\ recommendations[1].imageUrl = PlaceholderUrl
    /\ recommendations[2].imageUrl = ImageDataUri("beans, stew")
    /\ overallReasoning # NULL

====
